---------------------------- MODULE Spec2Model ----------------------------
(***************************************************************************)
(* Job portal (Express application): registration, login and sessions,     *)
(* avatar upload, the in-memory job registry, job search and pagination.   *)
(*                                                                         *)
(* A request is handled in synchronous segments separated by the awaits of *)
(* its handler; one action is one segment.  The user store (MongoDB) and   *)
(* the session store are shared by all requests in flight.                 *)
(*                                                                         *)
(* JavaScript values are tagged records [t, v]: a string carries its       *)
(* characters as a sequence, undefined and numbers carry what the handlers *)
(* can observe of them.                                                    *)
(***************************************************************************)
EXTENDS Integers, Sequences, FiniteSets, TLC

VARIABLES users, session, login, req, jobs, disk, out, now

vars == <<users, session, login, req, jobs, disk, out, now>>

(***************************************************************************)
(* Bounds of the model.                                                    *)
(***************************************************************************)
MaxUsers == 3
MaxJobs == 2
MaxPageJobs == 25
MaxPage == 4

(***************************************************************************)
(* JavaScript values.                                                      *)
(***************************************************************************)
Str(s) == [t |-> "string", v |-> s]
Undefined == [t |-> "undefined", v |-> <<>>]
Num(digits) == [t |-> "number", v |-> digits]

IsString(x) == x.t = "string"

\* !x for the values above: undefined and the empty string are falsy; the
\* numbers of the model are non-zero.
Falsy(x) == x.t = "undefined" \/ (x.t = "string" /\ x.v = <<>>)

\* x.length: the number of characters of a string; undefined for a number.
HasLength(x) == x.t = "string"
Length(x) == Len(x.v)

\* String.prototype.toLowerCase on one character and on a string.
UpperCase ==
    << "A", "B", "C", "D", "E", "F", "G", "H", "I", "J", "K", "L", "M",
       "N", "O", "P", "Q", "R", "S", "T", "U", "V", "W", "X", "Y", "Z" >>
LowerCase ==
    << "a", "b", "c", "d", "e", "f", "g", "h", "i", "j", "k", "l", "m",
       "n", "o", "p", "q", "r", "s", "t", "u", "v", "w", "x", "y", "z" >>
LowerChar(c) ==
    IF \E k \in DOMAIN UpperCase : UpperCase[k] = c
    THEN LowerCase[CHOOSE k \in DOMAIN UpperCase : UpperCase[k] = c]
    ELSE c
ToLowerCase(s) == [i \in DOMAIN s |-> LowerChar(s[i])]

\* String.prototype.includes: t occurs in s at some position.
RECURSIVE IncludesFrom(_, _, _)
IncludesFrom(s, t, i) ==
    IF i + Len(t) - 1 > Len(s) THEN FALSE
    ELSE IF SubSeq(s, i, i + Len(t) - 1) = t THEN TRUE
    ELSE IncludesFrom(s, t, i + 1)
Includes(s, t) == IncludesFrom(s, t, 1)

(***************************************************************************)
(* Responses and errors.                                                   *)
(***************************************************************************)
NoFlash == [type |-> "none", msgs |-> <<>>]
Redirect(to, ftype, msgs) ==
    [status |-> 302, kind |-> "redirect", to |-> to,
     flash |-> [type |-> ftype, msgs |-> msgs]]
Render(page, status) ==
    [status |-> status, kind |-> "render", to |-> page, flash |-> NoFlash]

Err(name, message) == [name |-> name, message |-> message]

\* app.use((err, req, res, next) => ...): a MulterError becomes a flash
\* message and a redirect back; anything else renders the error page with
\* err.status || 500 (no error of the model carries a status).
ErrorHandler(err) ==
    IF err.name = "MulterError"
    THEN Redirect("back", "error", <<"File upload error: ", err.message>>)
    ELSE Render("error", 500)

(***************************************************************************)
(* The user store: the User collection with its unique index on email.     *)
(***************************************************************************)
Hash(password) == [hash |-> password]
\* User.findOne({ email }): the first document with that email, or 0.
FindOne(store, email) ==
    IF \E i \in DOMAIN store : store[i].email = email
    THEN CHOOSE i \in DOMAIN store :
             /\ store[i].email = email
             /\ \A j \in DOMAIN store : store[j].email = email => i <= j
    ELSE 0

\* User.findById(id): the document, or 0 (null).
FindById(store, id) == IF id \in DOMAIN store THEN id ELSE 0

\* email: { unique: true }: an insert whose email is already indexed fails
\* with the duplicate key error.
DuplicateKey(store, email) == \E i \in DOMAIN store : store[i].email = email

(***************************************************************************)
(* Requests in flight and the sessions.                                    *)
(***************************************************************************)
\* The requests in flight: two handles.  A new request takes the lowest free
\* handle (the handles are interchangeable).
Reqs == 1 .. 2
Sids == {"s1", "s2"}
Idle == [route |-> "none", pc |-> "idle"]

Free(r) == req[r] = Idle /\ \A q \in Reqs : q < r => req[q] # Idle

\* out is the response sent by the last step, with the request it answers;
\* None after a step that sent no response.
None == [route |-> "none"]

\* passport.serializeUser: the session keeps the user's id.
SerializeUser(user) == user.id

\* passport.deserializeUser on the id kept by the session: req.user, the
\* index of the user document, or 0 (no user, the request is anonymous).
DeserializeUser(id) == IF id = 0 THEN 0 ELSE FindById(users, id)
Principal(sid) == DeserializeUser(session[sid])

\* A gate that lets every request pass.
IsAuthenticatedAlways(sid) == TRUE

\* req.isAuthenticated()
IsAuthenticated(sid) == Principal(sid) # 0

(***************************************************************************)
(* Upload (multer): upload.single('avatar') with the file filter, the disk *)
(* storage and the size limit.                                             *)
(***************************************************************************)
FileSizeLimit == 5 * 1024 * 1024
AllowedTypes == {"image/jpeg", "image/png", "application/pdf"}
NoFile == [field |-> "none", mimetype |-> "none", size |-> 0]
NoErr == Err("none", "")

\* storage.destination
Destination(field) ==
    IF field = "resume" THEN "public/uploads/resumes" ELSE "public/uploads/avatars"

\* fileFilter: the error it passes to its callback, or NoErr.
FileFilter(file) ==
    IF file.mimetype \notin AllowedTypes
    THEN Err("Error", "Invalid file type")
    ELSE NoErr

\* upload.single('avatar') on the file part of a request: [err, stored].  A
\* file in another field is refused before the filter is asked; a file the
\* filter accepts is streamed to its destination and removed again when it
\* exceeds the size limit.
Multer(file) ==
    IF file = NoFile THEN [err |-> NoErr, stored |-> {}]
    ELSE IF file.field # "avatar"
    THEN [err |-> Err("MulterError", "Unexpected field"), stored |-> {}]
    ELSE IF FileFilter(file) # NoErr
    THEN [err |-> FileFilter(file), stored |-> {}]
    ELSE IF file.size > FileSizeLimit
    THEN [err |-> Err("MulterError", "File too large"), stored |-> {}]
    ELSE [err |-> NoErr,
          stored |-> {[dir |-> Destination(file.field), mimetype |-> file.mimetype]}]

(***************************************************************************)
(* Inputs of the requests.                                                 *)
(***************************************************************************)
Emails == {Str(<<"a">>), Str(<<"A">>), Str(<<"b">>), Undefined}
Passwords == {Str(<<"p">>), Str(<<"P">>)}
RegisterBodies ==
    [email : Emails, password : Passwords, confirmPassword : Passwords]
Files ==
    { NoFile,
      [field |-> "avatar", mimetype |-> "image/jpeg", size |-> 1],
      [field |-> "avatar", mimetype |-> "application/pdf", size |-> 1],
      [field |-> "avatar", mimetype |-> "text/plain", size |-> 1],
      [field |-> "avatar", mimetype |-> "image/jpeg", size |-> FileSizeLimit + 1],
      [field |-> "resume", mimetype |-> "application/pdf", size |-> 1] }

(***************************************************************************)
(* POST /auth/register                                                     *)
(***************************************************************************)
\* A comparison that ignores case.
PasswordMismatchIgnoringCase(body) ==
    ToLowerCase(body.password.v) # ToLowerCase(body.confirmPassword.v)

\* password !== confirmPassword
PasswordMismatch(body) == body.password # body.confirmPassword

\* The response to a register request, with the request's body and file,
\* whether its email was in the store when it arrived (pre) and whether it
\* created a user.
RegisterOut(body, file, pre, resp, created) ==
    [route |-> "register", in |-> body, file |-> file, pre |-> pre,
     resp |-> resp, created |-> created]

\* upload.single('avatar'), then the handler up to its first await.
RegisterRequest(r, body, file) ==
    /\ Free(r)
    /\ Len(users) < MaxUsers
    /\ LET m == Multer(file)
           pre == IsString(body.email)
                    /\ DuplicateKey(users, ToLowerCase(body.email.v))
       IN  IF m.err # NoErr
           THEN /\ out' = RegisterOut(body, file, pre, ErrorHandler(m.err), FALSE)
                /\ UNCHANGED <<req, disk>>
           ELSE /\ disk' = disk \cup m.stored
                /\ IF PasswordMismatch(body)
                   THEN /\ out' = RegisterOut(body, file, pre,
                                     Redirect("/auth/register", "error",
                                              <<"Passwords do not match">>), FALSE)
                        /\ UNCHANGED req
                   ELSE IF ~IsString(body.email)
                   THEN \* email.toLowerCase() throws; catch -> next(error)
                        /\ out' = RegisterOut(body, file, pre,
                                     ErrorHandler(Err("TypeError", "toLowerCase")), FALSE)
                        /\ UNCHANGED req
                   ELSE /\ req' = [req EXCEPT ![r] =
                                     [route |-> "register", pc |-> "findOne",
                                      body |-> body, file |-> file, pre |-> pre]]
                        /\ out' = None
    /\ UNCHANGED <<users, session, login, jobs, now>>

\* await User.findOne({ email: email.toLowerCase() }) and the existence check.
RegisterFindOne(r) ==
    /\ req[r].route = "register" /\ req[r].pc = "findOne"
    /\ IF FindOne(users, ToLowerCase(req[r].body.email.v)) # 0
       THEN /\ out' = RegisterOut(req[r].body, req[r].file, req[r].pre,
                         Redirect("/auth/register", "error",
                                  <<"Email already registered">>), FALSE)
            /\ req' = [req EXCEPT ![r] = Idle]
       ELSE /\ req' = [req EXCEPT ![r].pc = "hash"]
            /\ out' = None
    /\ UNCHANGED <<users, session, login, jobs, disk, now>>

\* await bcrypt.genSalt, await bcrypt.hash
RegisterHash(r) ==
    /\ req[r].route = "register" /\ req[r].pc = "hash"
    /\ req' = [req EXCEPT ![r].pc = "save"]
    /\ out' = None
    /\ UNCHANGED <<users, session, login, jobs, disk, now>>

\* new User({...}): the id the store gives the document, the email
\* lowercased, the hashed password and the avatar path (name and role are
\* read by no handler and are left out).
NewUser(store, body, file) ==
    [id |-> Len(store) + 1,
     email |-> ToLowerCase(body.email.v),
     password |-> Hash(body.password),
     avatar |-> IF file # NoFile THEN "/uploads/avatars/<filename>"
                ELSE "/images/default-avatar.png"]

\* A store without the unique index.
SaveErrorNoIndex(store, doc) == NoErr

\* The store's answer to the insert of a document: the duplicate key error
\* of the unique index, or NoErr.
SaveError(store, doc) ==
    IF DuplicateKey(store, doc.email)
    THEN Err("MongoServerError", "E11000 duplicate key error")
    ELSE NoErr

\* await newUser.save() and the rest of the handler; catch -> next(error).
RegisterSave(r) ==
    /\ req[r].route = "register" /\ req[r].pc = "save"
    /\ LET doc == NewUser(users, req[r].body, req[r].file)
       IN  IF SaveError(users, doc) # NoErr
           THEN /\ out' = RegisterOut(req[r].body, req[r].file, req[r].pre,
                             ErrorHandler(SaveError(users, doc)), FALSE)
                /\ UNCHANGED users
           ELSE /\ users' = Append(users, doc)
                /\ out' = RegisterOut(req[r].body, req[r].file, req[r].pre,
                             Redirect("/auth/login", "success",
                                <<"Registration successful! You can now log in">>),
                             TRUE)
    /\ req' = [req EXCEPT ![r] = Idle]
    /\ UNCHANGED <<session, login, jobs, disk, now>>

(***************************************************************************)
(* Registration: any number of register requests, interleaved at their     *)
(* awaits, against an initially empty store.                               *)
(***************************************************************************)
RegisterFiles ==
    { NoFile,
      [field |-> "avatar", mimetype |-> "image/jpeg", size |-> FileSizeLimit + 1] }

Init ==
    /\ users = <<>>
    /\ session = [s \in Sids |-> 0]
    /\ login = [s \in Sids |-> None]
    /\ req = [r \in Reqs |-> Idle]
    /\ jobs = <<>>
    /\ disk = {}
    /\ out = None
    /\ now = 1

Next ==
    \/ \E r \in Reqs, body \in RegisterBodies, file \in RegisterFiles :
           RegisterRequest(r, body, file)
    \/ \E r \in Reqs : RegisterFindOne(r)
    \/ \E r \in Reqs : RegisterHash(r)
    \/ \E r \in Reqs : RegisterSave(r)

Spec == Init /\ [][Next]_vars

(***************************************************************************)
(* Properties of registration.                                             *)
(***************************************************************************)
EmailTaken == Redirect("/auth/register", "error", <<"Email already registered">>)
PasswordsDiffer == Redirect("/auth/register", "error", <<"Passwords do not match">>)

\* No two stored users have the same lowercased email.
EmailsUnique ==
    \A i, j \in DOMAIN users :
        i # j => ToLowerCase(users[i].email) # ToLowerCase(users[j].email)

\* The response answers a register request whose upload stage raised no
\* error (the handler ran).
HandlerRan == out.route = "register" /\ Multer(out.file).err = NoErr

\* C1 as stated: email uniqueness holds in the store under every
\* interleaving of register requests, and every registration whose email
\* (lowercased) was in the store when it arrived is rejected with 'Email
\* already registered' and creates no record; here for the registrations
\* whose upload stage raised no error.
C1_AsStated ==
    /\ EmailsUnique
    /\ (HandlerRan /\ out.pre) => (out.resp = EmailTaken /\ ~out.created)

\* C1 amended: email uniqueness holds in the store under every interleaving
\* of register requests; a registration whose email (lowercased) was in the
\* store when it arrived creates no record, and it is rejected with 'Email
\* already registered' when it reaches the existence check (its upload was
\* accepted and its passwords match).
C1_EmailUnique ==
    /\ EmailsUnique
    /\ (out.route = "register" /\ out.pre) => ~out.created
    /\ (HandlerRan /\ out.pre /\ out.in.password = out.in.confirmPassword)
           => out.resp = EmailTaken

\* Two registrations of one email raced: this one arrived while the email
\* was absent, passed the existence check and was refused by the store.
C1_Witness ==
    /\ HandlerRan /\ ~out.pre /\ ~out.created
    /\ out.in.password = out.in.confirmPassword
    /\ IsString(out.in.email)
    /\ out.resp # EmailTaken
    /\ Len(users) = 1
    /\ users[1].email = ToLowerCase(out.in.email.v)

\* A validation error of registration: the passwords differ, or the email
\* is in the store and this request did not put it there.
ValidationError ==
    /\ HandlerRan
    /\ \/ out.in.password # out.in.confirmPassword
       \/ /\ IsString(out.in.email)
          /\ ~out.created
          /\ \E i \in DOMAIN users : users[i].email = ToLowerCase(out.in.email.v)

\* C9 as stated: a registration that ends in a validation error (password
\* mismatch, duplicate email, also one the store detects at the save) is
\* answered with a flash error and a redirect to the form, never a 5xx.
C9_NoServerError ==
    ValidationError =>
        /\ out.resp.status < 500
        /\ out.resp.kind = "redirect"
        /\ out.resp.to = "/auth/register"
        /\ out.resp.flash.type = "error"

\* C10 as stated: every registration whose confirmPassword differs from its
\* password creates no user and is answered with the redirect to
\* /auth/register and 'Passwords do not match'.
C10_AsStated ==
    (out.route = "register" /\ out.in.password # out.in.confirmPassword)
        => (~out.created /\ out.resp = PasswordsDiffer)

\* C10 amended: the step that answers a registration whose confirmPassword
\* differs from its password leaves the user store unchanged, whatever the
\* email; the answer is the redirect to /auth/register with 'Passwords do
\* not match' when the upload stage raised no error.
C10_Mismatch ==
    /\ [](HandlerRan /\ out.in.password # out.in.confirmPassword
            => out.resp = PasswordsDiffer /\ ~out.created)
    /\ [][(out'.route = "register"
            /\ out'.in.password # out'.in.confirmPassword)
          => users' = users]_vars

\* A mismatched registration of an email that is already stored.
C10_Witness ==
    /\ HandlerRan /\ out.in.password # out.in.confirmPassword
    /\ out.pre
    /\ out.resp = PasswordsDiffer

(***************************************************************************)
(* Login, logout and the session.                                          *)
(***************************************************************************)
\* bcrypt.compare(password, user.password)
Compare(password, hashed) == hashed = Hash(password)

AuthFailure == Redirect("/auth/login", "error", <<"Incorrect email or password">>)

LoginOut(sid, resp) == [route |-> "login", sid |-> sid, resp |-> resp]

\* POST /auth/login: passport.authenticate('local') calls the strategy,
\* which runs up to its first await.
LoginRequest(r, sid, email, password) ==
    /\ Free(r)
    /\ req' = [req EXCEPT ![r] =
                 [route |-> "login", pc |-> "findOne", sid |-> sid,
                  email |-> email, password |-> password, user |-> 0]]
    /\ out' = None
    /\ UNCHANGED <<users, session, login, jobs, disk, now>>

\* await User.findOne({ email: email.toLowerCase() })
LoginFindOne(r) ==
    /\ req[r].route = "login" /\ req[r].pc = "findOne"
    /\ LET user == FindOne(users, ToLowerCase(req[r].email.v))
       IN  IF user = 0
           THEN /\ out' = LoginOut(req[r].sid, AuthFailure)
                /\ req' = [req EXCEPT ![r] = Idle]
           ELSE /\ req' = [req EXCEPT ![r].pc = "compare", ![r].user = user]
                /\ out' = None
    /\ UNCHANGED <<users, session, login, jobs, disk, now>>

\* await bcrypt.compare; done(null, user) logs the user in: the session
\* keeps serializeUser(user).  login remembers the credentials verified.
LoginCompare(r) ==
    /\ req[r].route = "login" /\ req[r].pc = "compare"
    /\ IF Compare(req[r].password, users[req[r].user].password)
       THEN /\ session' = [session EXCEPT
                             ![req[r].sid] = SerializeUser(users[req[r].user])]
            /\ login' = [login EXCEPT ![req[r].sid] =
                            [route |-> "login", email |-> req[r].email,
                             password |-> req[r].password]]
            /\ out' = LoginOut(req[r].sid, Redirect("/", "none", <<>>))
       ELSE /\ out' = LoginOut(req[r].sid, AuthFailure)
            /\ UNCHANGED <<session, login>>
    /\ req' = [req EXCEPT ![r] = Idle]
    /\ UNCHANGED <<users, jobs, disk, now>>

\* A logout that leaves the session as it is.
LogoutKeepsSession(sid) ==
    /\ login' = [login EXCEPT ![sid] = None]
    /\ out' = [route |-> "logout", sid |-> sid, resp |-> Redirect("/", "none", <<>>)]
    /\ UNCHANGED <<users, session, req, jobs, disk, now>>

\* GET /auth/logout: req.logout removes the user from the session.
Logout(sid) ==
    /\ session' = [session EXCEPT ![sid] = 0]
    /\ login' = [login EXCEPT ![sid] = None]
    /\ out' = [route |-> "logout", sid |-> sid, resp |-> Redirect("/", "none", <<>>)]
    /\ UNCHANGED <<users, req, jobs, disk, now>>

\* cookie.maxAge: the session expires and the store drops it.
Expire(sid) ==
    /\ session[sid] # 0
    /\ session' = [session EXCEPT ![sid] = 0]
    /\ login' = [login EXCEPT ![sid] = None]
    /\ out' = None
    /\ UNCHANGED <<users, req, jobs, disk, now>>

SignIn == Redirect("/auth/login", "error", <<"Please sign in to continue">>)

\* The response of a gated route, with the principal of the request.
GatedOut(route, sid, principal, resp) ==
    [route |-> route, sid |-> sid, principal |-> principal, resp |-> resp]

\* GET /dashboard behind isAuthenticated
Dashboard(sid) ==
    /\ out' = GatedOut("dashboard", sid, Principal(sid),
                 IF IsAuthenticated(sid) THEN Render("dashboard", 200) ELSE SignIn)
    /\ UNCHANGED <<users, session, login, req, jobs, disk, now>>

(***************************************************************************)
(* Sessions: logins, logouts, expiry and gated requests of two registered  *)
(* users.                                                                  *)
(***************************************************************************)
StoredUsers ==
    LET u1 == NewUser(<<>>, [email |-> Str(<<"a">>), password |-> Str(<<"p">>)], NoFile)
        u2 == NewUser(<<u1>>, [email |-> Str(<<"B">>), password |-> Str(<<"P">>)], NoFile)
    IN  <<u1, u2>>

LoginEmails == {Str(<<"a">>), Str(<<"A">>), Str(<<"b">>), Str(<<"c">>)}

InitSession ==
    /\ users = StoredUsers
    /\ session = [s \in Sids |-> 0]
    /\ login = [s \in Sids |-> None]
    /\ req = [r \in Reqs |-> Idle]
    /\ jobs = <<>>
    /\ disk = {}
    /\ out = None
    /\ now = 1

NextSession ==
    \/ \E r \in Reqs, sid \in Sids, email \in LoginEmails, password \in Passwords :
           LoginRequest(r, sid, email, password)
    \/ \E r \in Reqs : LoginFindOne(r)
    \/ \E r \in Reqs : LoginCompare(r)
    \/ \E sid \in Sids : Logout(sid)
    \/ \E sid \in Sids : Expire(sid)
    \/ \E sid \in Sids : Dashboard(sid)

SpecSession == InitSession /\ [][NextSession]_vars

\* C2: while a session is logged in (from a successful login until logout
\* or expiry) every request bearing its id resolves to the user whose
\* credentials that login verified: the stored user with the login's email
\* (lowercased) whose password hash matches the login's password; a session
\* that was logged out, has expired or never logged in resolves to no user.
C2_SessionResolves ==
    /\ \A s \in Sids :
          IF login[s] = None
          THEN Principal(s) = 0
          ELSE /\ Principal(s) \in DOMAIN users
               /\ users[Principal(s)].email = ToLowerCase(login[s].email.v)
               /\ users[Principal(s)].password = Hash(login[s].password)
               /\ \A i \in DOMAIN users :
                     users[i].email = ToLowerCase(login[s].email.v) => i = Principal(s)
    /\ out.route = "dashboard" =>
          /\ out.principal = Principal(out.sid)
          /\ (out.resp = Render("dashboard", 200)) = (login[out.sid] # None)
    /\ out.route = "logout" => Principal(out.sid) = 0

\* A request after a logout on a session that another session's login of the
\* same user outlives: s1 resolves to no user, s2 to the user.
C2_Witness ==
    /\ out.route = "dashboard" /\ out.sid = "s1" /\ out.resp = SignIn
    /\ login["s2"] # None /\ Principal("s2") = 2
    /\ login["s2"].email = Str(<<"b">>)

(***************************************************************************)
(* The job registry: POST /employer/post-job behind isAuthenticated and    *)
(* validateJob.                                                            *)
(***************************************************************************)
MinTitle == 3
MinDescription == 10

\* x.length < n: false when x has no length (undefined < n).
LengthBelow(x, n) == HasLength(x) /\ Length(x) < n

\* validateJob: the errors it collects.
ValidateJob(body) ==
    (IF Falsy(body.title) \/ LengthBelow(body.title, MinTitle)
     THEN <<"Title must be at least 3 characters">> ELSE <<>>)
    \o (IF Falsy(body.company) THEN <<"Company name is required">> ELSE <<>>)
    \o (IF Falsy(body.description) \/ LengthBelow(body.description, MinDescription)
        THEN <<"Description must be at least 10 characters">> ELSE <<>>)

\* const job = {...}: Date.now() is the value of the clock, which has
\* advanced at every job built; requirements and createdAt are read by no
\* handler and are left out.
NewJob(user, body) ==
    [id |-> now, userId |-> user.id, title |-> body.title, company |-> body.company,
     description |-> body.description, location |-> body.location]

\* The response to a post-job request, with the principal of the request
\* when it was gated and the body it carried.
PostJobOut(sid, principal, body, resp) ==
    [route |-> "postjob", sid |-> sid, principal |-> principal, in |-> body,
     resp |-> resp]

\* isAuthenticated, validateJob and the handler up to its await.
PostJobRequest(r, sid, body, cap) ==
    /\ Free(r)
    /\ Len(jobs) + Cardinality({q \in Reqs : req[q].route = "postjob"}) < cap
    /\ IF ~IsAuthenticated(sid)
       THEN /\ out' = PostJobOut(sid, Principal(sid), body, SignIn)
            /\ UNCHANGED req
       ELSE IF ValidateJob(body) # <<>>
       THEN /\ out' = PostJobOut(sid, Principal(sid), body,
                         Redirect("/employer/post-job", "error", ValidateJob(body)))
            /\ UNCHANGED req
       ELSE IF Principal(sid) = 0
       THEN \* req.user.id throws; catch -> next(error)
            /\ out' = PostJobOut(sid, Principal(sid), body,
                         ErrorHandler(Err("TypeError", "req.user is null")))
            /\ UNCHANGED req
       ELSE /\ req' = [req EXCEPT ![r] =
                         [route |-> "postjob", pc |-> "delay", sid |-> sid,
                          principal |-> Principal(sid), body |-> body,
                          job |-> NewJob(users[Principal(sid)], body)]]
            /\ out' = None
    /\ now' = IF IsAuthenticated(sid) /\ ValidateJob(body) = <<>> /\ Principal(sid) # 0
              THEN now + 1 ELSE now
    /\ UNCHANGED <<users, session, login, jobs, disk>>

\* A push that puts the job at the front of the list.
PostJobPushFront(r) ==
    /\ req[r].route = "postjob" /\ req[r].pc = "delay"
    /\ jobs' = <<req[r].job>> \o jobs
    /\ out' = PostJobOut(req[r].sid, req[r].principal, req[r].body,
                 Redirect("/jobs", "success", <<"Job posted successfully!">>))
    /\ req' = [req EXCEPT ![r] = Idle]
    /\ UNCHANGED <<users, session, login, disk, now>>

\* After the simulated database delay: jobs.push(job) and the redirect.
PostJobPush(r) ==
    /\ req[r].route = "postjob" /\ req[r].pc = "delay"
    /\ jobs' = Append(jobs, req[r].job)
    /\ out' = PostJobOut(req[r].sid, req[r].principal, req[r].body,
                 Redirect("/jobs", "success", <<"Job posted successfully!">>))
    /\ req' = [req EXCEPT ![r] = Idle]
    /\ UNCHANGED <<users, session, login, disk, now>>

\* GET /employer/post-job behind isAuthenticated
PostJobForm(sid) ==
    /\ out' = GatedOut("postjobform", sid, Principal(sid),
                 IF IsAuthenticated(sid) THEN Render("post-job", 200) ELSE SignIn)
    /\ UNCHANGED <<users, session, login, req, jobs, disk, now>>

(***************************************************************************)
(* Posting: post-job and dashboard requests on sessions of two registered  *)
(* users, with logouts in between.                                         *)
(***************************************************************************)
Desc9 == Str(<<"d", "e", "s", "c", "r", "i", "p", "t", "i">>)
Desc10 == Str(<<"d", "e", "s", "c", "r", "i", "p", "t", "i", "o">>)

PostBodies ==
    [title : {Undefined, Str(<<"G", "o">>), Str(<<"D", "e", "v">>), Num(<<"7">>)},
     company : {Str(<<>>), Str(<<"C">>)},
     description : {Desc9, Desc10},
     location : {Str(<<"N", "Y">>)}]

InitPost ==
    /\ users = StoredUsers
    /\ session \in [Sids -> {0} \cup DOMAIN StoredUsers]
    /\ login = [s \in Sids |-> None]
    /\ req = [r \in Reqs |-> Idle]
    /\ jobs = <<>>
    /\ disk = {}
    /\ out = None
    /\ now = 1

NextPost ==
    \/ \E r \in Reqs, sid \in Sids, body \in PostBodies : PostJobRequest(r, sid, body, MaxJobs)
    \/ \E r \in Reqs : PostJobPush(r)
    \/ \E sid \in Sids : PostJobForm(sid)
    \/ \E sid \in Sids : Dashboard(sid)
    \/ \E sid \in Sids : Logout(sid)

SpecPost == InitPost /\ [][NextPost]_vars

\* C3: the jobs list changes only by the push of a post-job request that
\* was authenticated when it was gated, which appends one job whose userId
\* is the id of that principal; an anonymous request to /employer/post-job
\* or /dashboard is answered with the redirect to /auth/login and 'Please
\* sign in to continue', and leaves the jobs list unchanged.
C3_AuthenticatedPost ==
    /\ [][jobs' # jobs =>
            /\ out'.route = "postjob"
            /\ out'.principal \in DOMAIN users
            /\ \E job \in [id : 1 .. now, userId : {users[out'.principal].id},
                           title : {out'.in.title}, company : {out'.in.company},
                           description : {out'.in.description},
                           location : {out'.in.location}] :
                  jobs' = Append(jobs, job)]_vars
    /\ [][(out'.route \in {"postjob", "postjobform", "dashboard"}
            /\ out'.principal = 0)
          => (jobs' = jobs /\ out'.resp = SignIn)]_vars
    /\ [](\A i \in DOMAIN jobs : \E u \in DOMAIN users : jobs[i].userId = users[u].id)

\* A job was pushed for a principal that logged out after the gate.
C3_Witness ==
    /\ out.route = "postjob" /\ out.resp.to = "/jobs"
    /\ Principal(out.sid) = 0
    /\ Len(jobs) = 2 /\ jobs[1].userId # jobs[2].userId

\* C4 as stated: every job in the registry has a title of at least 3
\* characters, a non-empty company and a description of at least 10
\* characters; a post-job request that violates a minimum is rejected with
\* the error messages and appends no job.
C4_JobMinimums ==
    \A i \in DOMAIN jobs :
        /\ IsString(jobs[i].title) /\ Len(jobs[i].title.v) >= 3
        /\ IsString(jobs[i].company) /\ Len(jobs[i].company.v) >= 1
        /\ IsString(jobs[i].description) /\ Len(jobs[i].description.v) >= 10

(***************************************************************************)
(* Concurrent posts: the requests of SpecPost, where the timer of every    *)
(* suspended request fires (setTimeout(resolve, 100)).                     *)
(***************************************************************************)
SpecPostFair == SpecPost /\ \A r \in Reqs : WF_vars(PostJobPush(r))

\* The requests suspended between building their job and appending it.
Suspended == {r \in Reqs : req[r].route = "postjob" /\ req[r].pc = "delay"}

\* C11: under every interleaving of post-job requests that passed the gate
\* and the validation, the jobs list changes only when one suspended request
\* completes, by appending that request's job at the end (the entries
\* already there keep their value and position), so the list is in
\* completion order; the jobs built so far (the clock has ticked once for
\* each) are, each exactly once, either in the list or held by a suspended
\* request (none is lost, overwritten or appended twice); and every
\* suspended request completes.
C11_ConcurrentAppend ==
    /\ [][jobs' # jobs =>
            \E r \in Suspended :
                /\ jobs' = Append(jobs, req[r].job)
                /\ req'[r] = Idle
                /\ \A q \in Reqs \ {r} : req'[q] = req[q]]_vars
    /\ [](/\ {jobs[i].id : i \in DOMAIN jobs} \cup {req[r].job.id : r \in Suspended}
                = 1 .. now - 1
          /\ Len(jobs) + Cardinality(Suspended) = now - 1)
    /\ \A r \in Reqs : (r \in Suspended) ~> (req[r] = Idle)

\* Two posts were in flight together and the one submitted last completed
\* first: the list is in completion order, not in submission order.
C11_Witness ==
    /\ Len(jobs) = 2
    /\ jobs[1].id > jobs[2].id
    /\ out.route = "postjob" /\ out.resp.to = "/jobs"
    /\ out.in = [title |-> jobs[2].title, company |-> jobs[2].company,
                 description |-> jobs[2].description, location |-> jobs[2].location]

(***************************************************************************)
(* GET /jobs: search and pagination.                                       *)
(***************************************************************************)
PageSize == 10

Min(a, b) == IF a < b THEN a ELSE b
Max(a, b) == IF a > b THEN a ELSE b

\* Number(s) for the text of an integer, as page - 1 and page < totalPages
\* convert a query string.
Digits == <<"0", "1", "2", "3", "4", "5", "6", "7", "8", "9">>
DigitValue(c) == (CHOOSE k \in DOMAIN Digits : Digits[k] = c) - 1
RECURSIVE ToNatural(_)
ToNatural(s) ==
    IF s = <<>> THEN 0
    ELSE 10 * ToNatural(SubSeq(s, 1, Len(s) - 1)) + DigitValue(s[Len(s)])
ToNumber(s) == IF Head(s) = "-" THEN 0 - ToNatural(Tail(s)) ELSE ToNatural(s)

\* const { page = 1 } = req.query, as a number.
PageNumber(query) == IF query.page = Undefined THEN 1 ELSE ToNumber(query.page.v)

\* A division that rounds down.
Floor(n, d) == n \div d

\* Math.ceil(n / d) for n >= 0.
Ceil(n, d) == (n + d - 1) \div d

\* Array.prototype.slice(start, end)
Slice(list, start, end) ==
    LET from == IF start < 0 THEN Max(Len(list) + start, 0) ELSE Min(start, Len(list))
        to == IF end < 0 THEN Max(Len(list) + end, 0) ELSE Min(end, Len(list))
    IN  SubSeq(list, from + 1, to)

\* x.toLowerCase() throws a TypeError unless x is a string.
Throws(x) == ~IsString(x)

\* The predicate of the search filter on a job it can evaluate.
SearchMatches(job, search) ==
    \/ Includes(ToLowerCase(job.title.v), ToLowerCase(search.v))
    \/ Includes(ToLowerCase(job.description.v), ToLowerCase(search.v))

\* Whether the predicate of the search filter throws on a job: the title is
\* read first, the description only when the title does not match.
SearchThrows(job, search) ==
    \/ Throws(job.title)
    \/ /\ ~Includes(ToLowerCase(job.title.v), ToLowerCase(search.v))
       /\ Throws(job.description)

\* The predicate of the location filter, and whether it throws.
LocationMatches(job, location) ==
    Includes(ToLowerCase(job.location.v), ToLowerCase(location.v))
LocationThrows(job, location) == Throws(job.location)

\* if (search) filteredJobs = filteredJobs.filter(...): [err, list]
FilterSearch(list, search) ==
    IF Falsy(search) THEN [err |-> FALSE, list |-> list]
    ELSE IF \E i \in DOMAIN list : SearchThrows(list[i], search)
    THEN [err |-> TRUE, list |-> <<>>]
    ELSE [err |-> FALSE,
          list |-> SelectSeq(list, LAMBDA job : SearchMatches(job, search))]

\* if (location) filteredJobs = filteredJobs.filter(...): [err, list]
FilterLocation(list, location) ==
    IF Falsy(location) THEN [err |-> FALSE, list |-> list]
    ELSE IF \E i \in DOMAIN list : LocationThrows(list[i], location)
    THEN [err |-> TRUE, list |-> <<>>]
    ELSE [err |-> FALSE,
          list |-> SelectSeq(list, LAMBDA job : LocationMatches(job, location))]

\* The pagination object of the view.
Pagination(query, totalJobs) ==
    LET totalPages == Ceil(totalJobs, PageSize)
    IN  [current |-> IF query.page = Undefined THEN Num(<<"1">>) ELSE query.page,
         total |-> totalPages,
         hasNext |-> PageNumber(query) < totalPages,
         hasPrev |-> PageNumber(query) > 1]

\* app.get('/jobs'): the response to a query on the registry.
JobsView(query) ==
    LET skip == (PageNumber(query) - 1) * PageSize
        bySearch == FilterSearch(jobs, query.search)
        byLocation == FilterLocation(bySearch.list, query.location)
    IN  IF bySearch.err \/ byLocation.err
        THEN \* catch -> next(error)
             [route |-> "jobs", query |-> query,
              resp |-> ErrorHandler(Err("TypeError", "toLowerCase")),
              jobs |-> <<>>, pagination |-> None]
        ELSE [route |-> "jobs", query |-> query,
              resp |-> Render("jobs", 200),
              jobs |-> Slice(byLocation.list, skip, skip + PageSize),
              pagination |-> Pagination(query, Len(byLocation.list))]

GetJobs(query) ==
    /\ out' = JobsView(query)
    /\ UNCHANGED <<users, session, login, req, jobs, disk, now>>

(***************************************************************************)
(* Search: a registry of a few jobs posted by a logged-in user, searched   *)
(* by text and by location.                                                *)
(***************************************************************************)
SearchBodies ==
    [title : {Str(<<"D", "e", "v">>), Str(<<"O", "p", "s">>)},
     company : {Str(<<"C">>)},
     description : {Desc10, Str(<<"n", "o", " ", "d", "e", "v", "e", "l", "o", "p">>)},
     location : {Undefined, Str(<<"N", "Y">>), Str(<<"L", "A">>)}]

SearchQueries ==
    [search : {Undefined, Str(<<>>), Str(<<"D", "E", "V">>), Str(<<"p">>)},
     location : {Undefined, Str(<<"n", "y">>), Str(<<"a">>)},
     page : {Undefined}]

InitSearch ==
    /\ users = StoredUsers
    /\ session = [s \in Sids |-> IF s = "s1" THEN 1 ELSE 0]
    /\ login = [s \in Sids |-> None]
    /\ req = [r \in Reqs |-> Idle]
    /\ jobs = <<>>
    /\ disk = {}
    /\ out = None
    /\ now = 1

NextSearch ==
    \/ \E body \in SearchBodies : PostJobRequest(1, "s1", body, MaxJobs)
    \/ PostJobPush(1)
    \/ \E query \in SearchQueries : GetJobs(query)

SpecSearch == InitSearch /\ [][NextSearch]_vars

\* t is a case-insensitive substring of the string value x.
SubstringOf(t, x) ==
    /\ IsString(x)
    /\ \E i \in 1 .. Len(x.v) + 1 : \E j \in i - 1 .. Len(x.v) :
          ToLowerCase(SubSeq(x.v, i, j)) = ToLowerCase(t.v)

\* The job satisfies every filter the query supplies.
Satisfies(job, query) ==
    /\ Falsy(query.search)
         \/ SubstringOf(query.search, job.title)
         \/ SubstringOf(query.search, job.description)
    /\ Falsy(query.location) \/ SubstringOf(query.location, job.location)

\* C6 as stated: the search answers with the jobs of the registry that
\* satisfy every supplied filter (text in title or description, location in
\* location, case-insensitive substrings, both when both are supplied), in
\* the order of the registry; here for registries of at most one page.
C6_SearchExact ==
    out.route = "jobs" =>
        /\ out.resp = Render("jobs", 200)
        /\ out.jobs = SelectSeq(jobs, LAMBDA job : Satisfies(job, out.query))

\* C12 as stated: GET /jobs with a location filter is answered with the
\* rendered result page, never an error response, in every registry that
\* post-job requests can build, a registry holding a job posted without a
\* location field included.
C12_LocationFilterRenders ==
    (out.route = "jobs" /\ ~Falsy(out.query.location)) =>
        /\ out.resp = Render("jobs", 200)
        /\ out.resp.status < 500

(***************************************************************************)
(* Pagination: a registry of up to MaxPageJobs jobs posted one after the   *)
(* other, listed page by page.                                             *)
(***************************************************************************)
\* The text of an integer, as a client writes it in ?page=.
RECURSIVE NaturalText(_)
NaturalText(n) ==
    IF n < 10 THEN <<Digits[n + 1]>>
    ELSE NaturalText(n \div 10) \o <<Digits[(n % 10) + 1]>>
NumberText(n) == IF n < 0 THEN <<"-">> \o NaturalText(0 - n) ELSE NaturalText(n)

PageBodies ==
    { [title |-> Str(<<"D", "e", "v">>), company |-> Str(<<"C">>),
       description |-> Desc10, location |-> Str(<<"N", "Y">>)] }

PageQueries ==
    [search : {Undefined, Str(<<"d", "e", "v">>), Str(<<"z">>)},
     location : {Undefined},
     page : {Undefined} \cup {Str(NumberText(n)) : n \in -1 .. MaxPage}]

NextPage ==
    \/ \E body \in PageBodies : PostJobRequest(1, "s1", body, MaxPageJobs)
    \/ PostJobPush(1)
    \/ \E query \in PageQueries : GetJobs(query)

SpecPage == InitSearch /\ [][NextPage]_vars

\* The page number a query asks for.
AskedPage(query) ==
    IF query.page = Undefined THEN 1
    ELSE CHOOSE n \in -1 .. MaxPage + 1 : NumberText(n) = query.page.v

\* C5: for the N jobs that satisfy the filters and a page p >= 1, the view
\* reports total = ceil(N / 10), holds exactly the matches at the indices
\* (p-1)*10 .. min(p*10, N)-1 in list order, reports hasNext iff p < total
\* and hasPrev iff p > 1, and the last page holds N mod 10 jobs (10 when N
\* is a multiple of 10).
C5_Pagination ==
    (out.route = "jobs" /\ AskedPage(out.query) >= 1) =>
        LET p == AskedPage(out.query)
            matches == SelectSeq(jobs, LAMBDA job : Satisfies(job, out.query))
            N == Len(matches)
            total == out.pagination.total
            first == (p - 1) * 10
            last == IF p * 10 < N THEN p * 10 ELSE N
        IN  /\ out.resp = Render("jobs", 200)
            /\ total \in Nat /\ total * 10 >= N /\ (total - 1) * 10 < N
            /\ Len(out.jobs) = (IF last > first THEN last - first ELSE 0)
            /\ \A k \in 1 .. Len(out.jobs) : out.jobs[k] = matches[first + k]
            /\ out.pagination.hasNext = (p < total)
            /\ out.pagination.hasPrev = (p > 1)
            /\ (p = total) =>
                  Len(out.jobs) = (IF N % 10 = 0 THEN 10 ELSE N % 10)

\* 25 jobs, page 2: jobs[10..19], three pages, a next and a previous page.
C5_Witness ==
    /\ Len(jobs) = 25
    /\ out.route = "jobs" /\ out.query.page = Str(<<"2">>)
    /\ out.query.search = Undefined
    /\ Len(out.jobs) = 10 /\ out.jobs[1] = jobs[11] /\ out.jobs[10] = jobs[20]
    /\ out.pagination.total = 3
    /\ out.pagination.hasNext /\ out.pagination.hasPrev

(***************************************************************************)
(* Upload: register requests that carry a file.                            *)
(***************************************************************************)
UploadBodies ==
    { [email |-> Str(<<"a">>), password |-> Str(<<"p">>), confirmPassword |-> Str(<<"p">>)],
      [email |-> Str(<<"b">>), password |-> Str(<<"p">>), confirmPassword |-> Str(<<"p">>)],
      [email |-> Str(<<"a">>), password |-> Str(<<"p">>), confirmPassword |-> Str(<<"P">>)] }

\* The image types (the filter of the configuration module).
ImageTypes == {"image/jpeg", "image/jpg", "image/png", "image/gif"}

NextUpload ==
    \/ \E r \in Reqs, body \in UploadBodies, file \in Files :
           RegisterRequest(r, body, file)
    \/ \E r \in Reqs : RegisterFindOne(r)
    \/ \E r \in Reqs : RegisterHash(r)
    \/ \E r \in Reqs : RegisterSave(r)

SpecUpload == Init /\ [][NextUpload]_vars

\* C7 as stated: a file whose declared type is outside the allow-list of
\* its upload context (images for the avatar field) is rejected and nothing
\* is written: no file of another type is stored under the avatars
\* directory, and the request that carried it is not accepted.
C7_AvatarImagesOnly ==
    /\ \A f \in disk :
           f.dir = "public/uploads/avatars" => f.mimetype \in ImageTypes
    /\ (out.route = "register" /\ out.file.field = "avatar"
          /\ out.file.mimetype \notin ImageTypes)
           => out.resp.kind # "redirect" \/ out.resp.flash.type = "error"

\* An upload error: a declared type outside the handler's allow-list, or a
\* file over the size limit.
UploadError(file) ==
    /\ file # NoFile
    /\ file.mimetype \notin AllowedTypes \/ file.size > 5 * 1024 * 1024

\* C8 as stated: every upload error (disallowed type, oversize) is answered
\* by the error handler with a flash message and a redirect, not a 5xx
\* page, and the request creates no user.
C8_UploadErrorFlash ==
    (out.route = "register" /\ UploadError(out.file)) =>
        /\ out.resp.kind = "redirect"
        /\ out.resp.flash.type = "error"
        /\ out.resp.status < 500
        /\ ~out.created

====
